---- MODULE Spec2Model ----
(***************************************************************************)
(* A model of mac2switchport.py: format_mac (MAC normalisation),           *)
(* mac2switchport (one HTTP GET against the AKIPS switch port mapper and   *)
(* the parse of its CSV-like answer) and main (flag mode and stream mode). *)
(*                                                                         *)
(* Text is a sequence of one-character strings, so that stripping,         *)
(* lower-casing, splitting, joining and JSON string quoting are computed   *)
(* character by character.  Python values are tagged records:              *)
(*   None, Str(chars), Dict(record), List(sequence of values).             *)
(***************************************************************************)
EXTENDS Integers, Sequences, FiniteSets, TLC

VARIABLES
    argv,       \* sys.argv[1:] as parsed by argparse: None, or [mac, raw]
    stdin,      \* the whole text of standard input
    stdin_gen,  \* the lines standard input was made of (history)
    pc,         \* position of the program
    pass,       \* stream mode: "json" (first loop) or "fallback" (second loop)
    lines,      \* stdin.split('\n')
    li,         \* index of the line the loop is at
    iter,       \* the sequence the inner for statement iterates
    ii,         \* index of the item the inner for statement is at
    retval,     \* main's retval list
    cur,        \* mac2switchport / format_mac: the mac argument
    craw,       \* mac2switchport: the raw argument
    site,       \* where the active mac2switchport call returns to
    ret,        \* value returned by the last call
    ret2,       \* format_mac applied to its own result
    exc,        \* the exception raised, "none" if none
    net,        \* the GET requests issued so far, in order
    nresp,      \* number of requests that have completed
    r_text,     \* r.text of the last response
    body_gen,   \* the field lists the last response body was made of (history)
    stdout,     \* what has been written and flushed to standard output
    outbuf,     \* what has been printed but not flushed
    pipe,       \* "open", or "closed" once a write to standard output failed
    digits      \* the characters the format_mac input was made of (history)

vars == <<argv, stdin, stdin_gen, pc, pass, lines, li, iter, ii, retval, cur,
          craw, site, ret, ret2, exc, net, nresp, r_text, body_gen, stdout,
          outbuf, pipe, digits>>

-----------------------------------------------------------------------------
(* Bounds of the model *)

\* length of the repeating pattern of characters a format_mac input is made of
SeedLen == 2
\* length of the repeating pattern of delimiters a format_mac input is made of
GapPeriod == 2
\* number of lines of a response body (besides the final line break)
MaxBodyLines == 2
\* number of non-empty lines of standard input
MaxLines == 2
\* number of MAC addresses in one JSON line
MaxBatch == 2

(* Constants of the program *)

\* assert len(mac) == 12
MacLen == 12
\* if len(i) == 6
NumFields == 6

-----------------------------------------------------------------------------
(* Python values *)

None == [t |-> "none"]
Str(s) == [t |-> "str", s |-> s]
Dict(d) == [t |-> "dict", d |-> d]
List(l) == [t |-> "list", l |-> l]

-----------------------------------------------------------------------------
(* Characters and strings *)

UpperCase == <<"A", "B", "C", "D", "E", "F", "G", "H", "I", "J", "K", "L", "M",
               "N", "O", "P", "Q", "R", "S", "T", "U", "V", "W", "X", "Y", "Z">>
LowerCase == <<"a", "b", "c", "d", "e", "f", "g", "h", "i", "j", "k", "l", "m",
               "n", "o", "p", "q", "r", "s", "t", "u", "v", "w", "x", "y", "z">>
DecDigits == {"0", "1", "2", "3", "4", "5", "6", "7", "8", "9"}
Range(s) == {s[i] : i \in DOMAIN s}
Letters == Range(UpperCase) \cup Range(LowerCase)
Whitespace == {" ", "\t", "\n", "\r"}
HexDigits == DecDigits \cup {"a", "b", "c", "d", "e", "f"}

\* str.lower(), one character
LowerChar(c) ==
    IF \E i \in DOMAIN UpperCase : UpperCase[i] = c
    THEN LowerCase[CHOOSE i \in DOMAIN UpperCase : UpperCase[i] = c]
    ELSE c

\* str.lower()
lower(s) == [i \in DOMAIN s |-> LowerChar(s[i])]

\* str.isalnum(): non-empty and every character a letter or a digit
isalnum(s) == Len(s) > 0 /\ \A i \in DOMAIN s : s[i] \in Letters \cup DecDigits

\* re.sub('[.:-]', '', s)
StripDelims(s) == SelectSeq(s, LAMBDA c : c \notin {".", ":", "-"})

\* ''.join(s.split())
StripWhitespace(s) == SelectSeq(s, LAMBDA c : c \notin Whitespace)

\* sep.join(parts)
RECURSIVE join(_, _)
join(sep, parts) ==
    IF Len(parts) = 0 THEN <<>>
    ELSE IF Len(parts) = 1 THEN parts[1]
    ELSE parts[1] \o sep \o join(sep, Tail(parts))

\* s.split(sep) for a one-character sep: always at least one part
RECURSIVE split(_, _)
split(s, sep) ==
    IF \A i \in DOMAIN s : s[i] # sep THEN <<s>>
    ELSE LET k == CHOOSE i \in DOMAIN s :
                      s[i] = sep /\ \A j \in 1..(i - 1) : s[j] # sep
         IN <<SubSeq(s, 1, k - 1)>> \o split(SubSeq(s, k + 1, Len(s)), sep)

-----------------------------------------------------------------------------
(* format_mac *)

\* a format_mac that forgets .lower()
format_mac_nolower(mac) ==
    LET m == StripWhitespace(StripDelims(mac))
    IN IF Len(m) # MacLen THEN [ok |-> FALSE, val |-> <<>>]
       ELSE IF ~isalnum(m) THEN [ok |-> FALSE, val |-> <<>>]
       ELSE [ok |-> TRUE,
             val |-> join(<<":">>, [k \in 1..(MacLen \div 2) |-> SubSeq(m, 2 * k - 1, 2 * k)])]

\* ok = FALSE stands for the AssertionError of either assert statement
format_mac(mac) ==
    LET m == StripWhitespace(lower(StripDelims(mac)))
    IN IF Len(m) # MacLen THEN [ok |-> FALSE, val |-> <<>>]
       ELSE IF ~isalnum(m) THEN [ok |-> FALSE, val |-> <<>>]
       ELSE [ok |-> TRUE,
             val |-> join(<<":">>, [k \in 1..(MacLen \div 2) |-> SubSeq(m, 2 * k - 1, 2 * k)])]

-----------------------------------------------------------------------------
(* Literal texts *)

MacA == <<"a", "a", ":", "b", "b", ":", "c", "c", ":", "d", "d", ":", "e", "e", ":", "f", "f">>
MacB == <<"1", "1", "2", "2", ".", "3", "3", "4", "4", ".", "5", "5", "6", "6">>
MacU == <<"A", "A", "-", "B", "B", "-", "C", "C", "-", "D", "D", "-", "E", "E", "-", "F", "F">>
MacD == <<"1", "1", "2", "2", "3", "3", "4", "4", "5", "5", "6", "6">>
MacX == <<"a", "a", ":", "b", "b", ":", "c", "c", ":", "d", "d", ":", "e", "e">>
CantResolve == <<"C", "a", "n", "'", "t", " ", "r", "e", "s", "o", "l", "v", "e", " ",
                 "m", "a", "c", " ", "a", "d", "d", "r", "e", "s", "s", " ">>
Acme == <<"A", "c", "m", "e">>
Sw1 == <<"s", "w", "1">>
Sw2 == <<"s", "w", "2">>
Gi01 == <<"G", "i", "0", "/", "1">>
Vlan10 == <<"v", "l", "a", "n", "1", "0">>
Ip5 == <<"1", "0", ".", "0", ".", "0", ".", "5">>
Junk == <<"z", "z">>

-----------------------------------------------------------------------------
(* The response of the API: lines of comma-separated fields *)

\* the text of a response body made of the lines g, each a list of fields
BodyText(g) == join(<<"\n">>, [k \in DOMAIN g |-> join(<<",">>, g[k])])

EmptyLine == <<<<>>>>
RecordLine(m, sw) == <<m, Acme, sw, Gi01, Vlan10, Ip5>>
ErrorLine(m) == <<CantResolve \o m>>

\* what the API answers in the runs of main: the port of m, or that it has none
MainBodyGens(m) == {<<RecordLine(m, Sw1), EmptyLine>>, <<ErrorLine(m), EmptyLine>>}

\* the lines the bodies of the resolver's runs are made of
BodyLineGens ==
    {RecordLine(MacA, Sw1), RecordLine(MacU, Sw2), ErrorLine(MacA),
     <<MacA, Acme, Sw1, Gi01, Vlan10>>,
     <<MacA, Acme, Sw1, Gi01, Vlan10, Ip5, Junk>>,
     <<Junk, Acme, Sw1, Gi01, Vlan10, Ip5>>,
     EmptyLine}

RichBodyGens ==
    {g \o e : g \in UNION {[1..n -> BodyLineGens] : n \in 0..MaxBodyLines},
              e \in {<<>>, <<EmptyLine>>}} \ {<<>>}

-----------------------------------------------------------------------------
(* mac2switchport *)

\* a loop that drops a 6-field line whose mac does not normalise
RECURSIVE records_skipping(_)
records_skipping(ls) ==
    IF Len(ls) = 0 THEN [ok |-> TRUE, val |-> <<>>]
    ELSE LET i == split(ls[1], ",")
             rest == records_skipping(Tail(ls))
         IN IF Len(i) = NumFields /\ format_mac(i[1]).ok
            THEN [ok |-> rest.ok,
                  val |-> <<Dict([mac |-> format_mac(i[1]).val, vendor |-> i[2],
                                  switch |-> i[3], port |-> i[4], vlan |-> i[5],
                                  ipaddress |-> i[6]])>> \o rest.val]
            ELSE rest

\* the for loop over r.text.split('\n'), from the line list ls on:
\* ok = FALSE stands for the AssertionError of format_mac(i[0])
RECURSIVE records(_)
records(ls) ==
    IF Len(ls) = 0 THEN [ok |-> TRUE, val |-> <<>>]
    ELSE LET i == split(ls[1], ",")
         IN IF Len(i) = NumFields
            THEN LET f == format_mac(i[1])
                     rest == records(Tail(ls))
                 IN IF f.ok /\ rest.ok
                    THEN [ok |-> TRUE,
                          val |-> <<Dict([mac |-> f.val, vendor |-> i[2],
                                          switch |-> i[3], port |-> i[4],
                                          vlan |-> i[5], ipaddress |-> i[6]])>>
                                  \o rest.val]
                    ELSE [ok |-> FALSE, val |-> <<>>]
            ELSE records(Tail(ls))

\* a return statement that always returns the list
parse_response_list(text) ==
    LET r == records(split(text, "\n"))
    IN IF r.ok THEN [ok |-> TRUE, val |-> List(r.val)] ELSE [ok |-> FALSE, val |-> None]

\* the else branch of mac2switchport: retval[0] if len(retval) == 1 else retval
parse_response(text) ==
    LET r == records(split(text, "\n"))
    IN IF r.ok
       THEN [ok |-> TRUE, val |-> IF Len(r.val) = 1 THEN r.val[1] ELSE List(r.val)]
       ELSE [ok |-> FALSE, val |-> None]

\* an exception that is noted and passed over: the call returns all the same
PropagateSwallowed(e) ==
    /\ exc' = e
    /\ pc' = IF site \in {"dict_append", "list_append", "fb_print"} THEN site
             ELSE "raised"

\* an exception that nothing catches leaves main
Propagate(e) == pc' = "raised" /\ exc' = e

\* format_mac(mac) and the GET request
mac2switchport_Request ==
    /\ pc = "m2s_entry"
    /\ LET f == format_mac(cur)
       IN IF f.ok
          THEN /\ net' = Append(net, [mac |-> f.val, pass |-> pass, line |-> li,
                                      item |-> ii, outs |-> Len(stdout),
                                      done |-> nresp])
               /\ pc' = "m2s_wait"
               /\ exc' = exc
          ELSE /\ Propagate("AssertionError")
               /\ net' = net
    /\ UNCHANGED <<argv, stdin, stdin_gen, pass, lines, li, iter, ii, retval, cur,
                   craw, site, ret, ret2, nresp, r_text, body_gen, stdout, outbuf,
                   pipe, digits>>

\* the response arrives, its body one of G, and mac2switchport returns or raises
mac2switchport_Response(G) ==
    /\ pc = "m2s_wait"
    /\ \E g \in G :
         LET text == BodyText(g)
         IN /\ r_text' = Str(text)
            /\ body_gen' = g
            /\ IF craw
               THEN ret' = Str(text) /\ pc' = site /\ exc' = exc
               ELSE LET p == parse_response(text)
                    IN IF p.ok
                       THEN ret' = p.val /\ pc' = site /\ exc' = exc
                       ELSE Propagate("AssertionError") /\ ret' = ret
    /\ nresp' = nresp + 1
    /\ UNCHANGED <<argv, stdin, stdin_gen, pass, lines, li, iter, ii, retval, cur,
                   craw, site, ret2, net, stdout, outbuf, pipe, digits>>

\* requests.get raises (connection refused, timeout, TLS failure)
mac2switchport_NetworkError ==
    /\ pc = "m2s_wait"
    /\ Propagate("ConnectionError")
    /\ nresp' = nresp + 1
    /\ UNCHANGED <<argv, stdin, stdin_gen, pass, lines, li, iter, ii, retval, cur,
                   craw, site, ret, ret2, net, r_text, body_gen, stdout, outbuf,
                   pipe, digits>>

-----------------------------------------------------------------------------
(* json *)

\* the escapes json.dumps writes inside a string
EscapeChar(c) ==
    CASE c = "\"" -> <<"\\", "\"">>
      [] c = "\\" -> <<"\\", "\\">>
      [] c = "\n" -> <<"\\", "n">>
      [] c = "\r" -> <<"\\", "r">>
      [] c = "\t" -> <<"\\", "t">>
      [] OTHER -> <<c>>

RECURSIVE escape(_)
escape(s) == IF Len(s) = 0 THEN <<>> ELSE EscapeChar(s[1]) \o escape(Tail(s))

\* a json.dumps that writes a string as it is
RECURSIVE json_dumps_plain(_)
json_dumps_plain(v) ==
    CASE v.t = "str" -> [json |-> "string", text |-> v.s]
      [] v.t = "dict" -> [json |-> "object", members |-> v.d]
      [] v.t = "list" ->
           [json |-> "array", elements |-> [k \in DOMAIN v.l |-> json_dumps_plain(v.l[k])]]

\* json.dumps(v, indent=2): a string is written out character by character,
\* an object or an array is kept as its members or elements
RECURSIVE json_dumps(_)
json_dumps(v) ==
    CASE v.t = "str" -> [json |-> "string", text |-> <<"\"">> \o escape(v.s) \o <<"\"">>]
      [] v.t = "dict" -> [json |-> "object", members |-> v.d]
      [] v.t = "list" ->
           [json |-> "array", elements |-> [k \in DOMAIN v.l |-> json_dumps(v.l[k])]]

\* the JSON text of a document of standard input, as the usage header writes it
RECURSIVE JsonText(_)
JsonText(v) ==
    CASE v.t = "str" -> <<"\"">> \o v.s \o <<"\"">>
      [] v.t = "dict" ->
           <<"{", "\"", "m", "a", "c", "\"", ":", " ">> \o JsonText(v.d.mac) \o <<"}">>
      [] v.t = "list" ->
           <<"[">> \o join(<<",", " ">>, [k \in DOMAIN v.l |-> JsonText(v.l[k])]) \o <<"]">>

\* the sequences without repetition of at most n elements of S
InjSeqs(S, n) ==
    {s \in UNION {[1..k -> S] : k \in 0..n} :
        \A i, j \in DOMAIN s : i # j => s[i] # s[j]}

\* the runs of at most n consecutive elements of the cycle c
Runs(c, n) ==
    {[j \in 1..k |-> c[((b + j - 2) % Len(c)) + 1]] :
        b \in DOMAIN c, k \in 0..(IF n < Len(c) THEN n ELSE Len(c))}

BatchMacs == <<MacA, MacB, MacX>>
ArrayMacs == {MacA, MacX}

\* {"mac": [m1, m2, ...]}
DictListDocs ==
    {Dict([mac |-> List([k \in DOMAIN s |-> Str(s[k])])]) : s \in Runs(BatchMacs, MaxBatch)}
\* {"mac": m}
DictStrDocs == {Dict([mac |-> Str(MacA)])}
\* [{"mac": m1}, {"mac": m2}, ...]
ArrayDocs ==
    {List([k \in DOMAIN s |-> Dict([mac |-> Str(s[k])])]) :
        s \in InjSeqs(ArrayMacs, MaxBatch) \ {<<>>}}
JsonDocs == DictListDocs \cup DictStrDocs \cup ArrayDocs

\* the scanner of a JSON number: -?(0|[1-9][0-9]*)(\.[0-9]+)?([eE][-+]?[0-9]+)?
NumStep(q, c) ==
    CASE q = "start" ->
           IF c = "-" THEN "neg" ELSE IF c = "0" THEN "zero"
           ELSE IF c \in DecDigits THEN "int" ELSE "bad"
      [] q = "neg" ->
           IF c = "0" THEN "zero" ELSE IF c \in DecDigits THEN "int" ELSE "bad"
      [] q = "zero" ->
           IF c = "." THEN "dot" ELSE IF c \in {"e", "E"} THEN "e" ELSE "bad"
      [] q = "int" ->
           IF c \in DecDigits THEN "int" ELSE IF c = "." THEN "dot"
           ELSE IF c \in {"e", "E"} THEN "e" ELSE "bad"
      [] q = "dot" -> IF c \in DecDigits THEN "frac" ELSE "bad"
      [] q = "frac" ->
           IF c \in DecDigits THEN "frac" ELSE IF c \in {"e", "E"} THEN "e" ELSE "bad"
      [] q = "e" ->
           IF c \in {"+", "-"} THEN "esign" ELSE IF c \in DecDigits THEN "exp" ELSE "bad"
      [] q = "esign" -> IF c \in DecDigits THEN "exp" ELSE "bad"
      [] q = "exp" -> IF c \in DecDigits THEN "exp" ELSE "bad"
      [] OTHER -> "bad"

RECURSIVE NumScan(_, _)
NumScan(q, s) == IF Len(s) = 0 THEN q ELSE NumScan(NumStep(q, s[1]), Tail(s))

IsJsonNumber(s) == NumScan("start", s) \in {"zero", "int", "frac", "exp"}

\* the documents with their texts
JsonTable == {[text |-> JsonText(d), doc |-> d] : d \in JsonDocs}

\* json.loads(line): a document, a number, or (ok = FALSE) JSONDecodeError
json_loads(line) ==
    IF \E e \in JsonTable : e.text = line
    THEN [ok |-> TRUE, val |-> (CHOOSE e \in JsonTable : e.text = line).doc]
    ELSE IF IsJsonNumber(line) THEN [ok |-> TRUE, val |-> [t |-> "number"]]
    ELSE [ok |-> FALSE, val |-> None]

-----------------------------------------------------------------------------
(* main *)

\* what print and flush deliver: the document, the line break, and where from
Written(v) ==
    [doc |-> json_dumps(v), end |-> "\n", pass |-> pass, line |-> li,
     reqs |-> Len(net)]

\* print(json.dumps(v, indent=2)); sys.stdout.flush()
print_flush(v) == stdout' = stdout \o Append(outbuf, Written(v)) /\ outbuf' = <<>>

\* iterating json_in['mac']: a list gives its elements, a str its characters
Iterate(v) == IF v.t = "str" THEN [k \in DOMAIN v.s |-> Str(<<v.s[k]>>)] ELSE v.l

\* len(sys.argv) == 1: stdin = sys.stdin.read()
ReadStdin ==
    /\ pc = "main" /\ argv = None
    /\ lines' = split(stdin, "\n")
    /\ li' = 1
    /\ pass' = "json"
    /\ pc' = "json_line"
    /\ UNCHANGED <<argv, stdin, stdin_gen, iter, ii, retval, cur, craw, site, ret,
                   ret2, exc, net, nresp, r_text, body_gen, stdout, outbuf, pipe,
                   digits>>

\* the first loop: one step of for line in stdin.split('\n'), up to the inner for
JsonLine ==
    /\ pc = "json_line"
    /\ IF li > Len(lines)
       THEN pc' = "exit" /\ UNCHANGED <<pass, li, iter, ii, retval>>
       ELSE IF Len(lines[li]) = 0
       THEN li' = li + 1 /\ UNCHANGED <<pc, pass, iter, ii, retval>>
       ELSE LET json_in == json_loads(lines[li])
            IN IF ~json_in.ok
               THEN \* except json.decoder.JSONDecodeError: start over
                    /\ pass' = "fallback" /\ li' = 1 /\ pc' = "fb_line"
                    /\ UNCHANGED <<iter, ii, retval>>
               ELSE IF json_in.val.t = "dict"
               THEN /\ retval' = <<>> /\ iter' = Iterate(json_in.val.d.mac) /\ ii' = 1
                    /\ pc' = "dict_item" /\ UNCHANGED <<pass, li>>
               ELSE IF json_in.val.t = "list"
               THEN /\ retval' = <<>> /\ iter' = json_in.val.l /\ ii' = 1
                    /\ pc' = "list_item" /\ UNCHANGED <<pass, li>>
               ELSE li' = li + 1 /\ UNCHANGED <<pc, pass, iter, ii, retval>>
    /\ UNCHANGED <<argv, stdin, stdin_gen, lines, cur, craw, site, ret, ret2, exc,
                   net, nresp, r_text, body_gen, stdout, outbuf, pipe, digits>>

\* for mac in json_in['mac']: mac2switchport(mac, False)
DictCall ==
    /\ pc = "dict_item" /\ ii <= Len(iter)
    /\ cur' = iter[ii].s /\ craw' = FALSE /\ site' = "dict_append"
    /\ pc' = "m2s_entry"
    /\ UNCHANGED <<argv, stdin, stdin_gen, pass, lines, li, iter, ii, retval, ret,
                   ret2, exc, net, nresp, r_text, body_gen, stdout, outbuf, pipe,
                   digits>>

\* for ele in json_in: mac2switchport(ele['mac'], False)
ListCall ==
    /\ pc = "list_item" /\ ii <= Len(iter)
    /\ cur' = iter[ii].d.mac.s /\ craw' = FALSE /\ site' = "list_append"
    /\ pc' = "m2s_entry"
    /\ UNCHANGED <<argv, stdin, stdin_gen, pass, lines, li, iter, ii, retval, ret,
                   ret2, exc, net, nresp, r_text, body_gen, stdout, outbuf, pipe,
                   digits>>

\* a retval that grows at the front
RetvalPrepend ==
    /\ pc \in {"dict_append", "list_append"}
    /\ retval' = <<ret>> \o retval
    /\ ii' = ii + 1
    /\ pc' = IF pc = "dict_append" THEN "dict_item" ELSE "list_item"
    /\ UNCHANGED <<argv, stdin, stdin_gen, pass, lines, li, iter, cur, craw, site,
                   ret, ret2, exc, net, nresp, r_text, body_gen, stdout, outbuf, pipe,
                   digits>>

\* retval.append(...) in either JSON branch
RetvalAppend ==
    /\ pc \in {"dict_append", "list_append"}
    /\ retval' = Append(retval, ret)
    /\ ii' = ii + 1
    /\ pc' = IF pc = "dict_append" THEN "dict_item" ELSE "list_item"
    /\ UNCHANGED <<argv, stdin, stdin_gen, pass, lines, li, iter, cur, craw, site,
                   ret, ret2, exc, net, nresp, r_text, body_gen, stdout, outbuf, pipe,
                   digits>>

\* print(json.dumps(retval, indent=2)); sys.stdout.flush() in either JSON branch
JsonPrint ==
    /\ pc \in {"dict_item", "list_item"} /\ ii > Len(iter)
    /\ print_flush(List(retval))
    /\ li' = li + 1
    /\ pc' = "json_line"
    /\ UNCHANGED <<argv, stdin, stdin_gen, pass, lines, iter, ii, retval, cur, craw,
                   site, ret, ret2, exc, net, nresp, r_text, body_gen, pipe, digits>>

\* the same statements when the reader of standard output has gone: the
\* BrokenPipeError is no JSONDecodeError, and the outer except re-raises it
JsonPrintBroken ==
    /\ pc \in {"dict_item", "list_item"} /\ ii > Len(iter)
    /\ pipe' = "closed"
    /\ Propagate("BrokenPipeError")
    /\ UNCHANGED <<argv, stdin, stdin_gen, pass, lines, li, iter, ii, retval, cur,
                   craw, site, ret, ret2, net, nresp, r_text, body_gen, stdout,
                   outbuf, digits>>

\* the second loop: one step of for line in stdin.split('\n')
FallbackLine ==
    /\ pc = "fb_line"
    /\ IF li > Len(lines)
       THEN pc' = "exit" /\ UNCHANGED <<li, cur, craw, site>>
       ELSE IF Len(lines[li]) = 0
       THEN li' = li + 1 /\ UNCHANGED <<pc, cur, craw, site>>
       ELSE /\ cur' = lines[li] /\ craw' = FALSE /\ site' = "fb_print"
            /\ pc' = "m2s_entry" /\ li' = li
    /\ UNCHANGED <<argv, stdin, stdin_gen, pass, lines, iter, ii, retval, ret, ret2,
                   exc, net, nresp, r_text, body_gen, stdout, outbuf, pipe, digits>>

\* print(json.dumps(mac2switchport(line, False), indent=2)); sys.stdout.flush()
FallbackPrint ==
    /\ pc = "fb_print"
    /\ print_flush(ret)
    /\ li' = li + 1
    /\ pc' = "fb_line"
    /\ UNCHANGED <<argv, stdin, stdin_gen, pass, lines, iter, ii, retval, cur, craw,
                   site, ret, ret2, exc, net, nresp, r_text, body_gen, pipe, digits>>

\* except BrokenPipeError: pass
FallbackPrintBroken ==
    /\ pc = "fb_print"
    /\ pipe' = "closed"
    /\ pc' = "exit"
    /\ UNCHANGED <<argv, stdin, stdin_gen, pass, lines, li, iter, ii, retval, cur,
                   craw, site, ret, ret2, exc, net, nresp, r_text, body_gen, stdout,
                   outbuf, digits>>

\* flag mode: args = parser.parse_args(); mac2switchport(args.mac, args.raw)
FlagCall ==
    /\ pc = "main" /\ argv # None
    /\ cur' = argv.mac /\ craw' = argv.raw /\ site' = "flag_print"
    /\ pc' = "m2s_entry"
    /\ UNCHANGED <<argv, stdin, stdin_gen, pass, lines, li, iter, ii, retval, ret,
                   ret2, exc, net, nresp, r_text, body_gen, stdout, outbuf, pipe,
                   digits>>

\* flag mode: print(json.dumps(..., indent=2)); sys.stdout.flush()
FlagPrint ==
    /\ pc = "flag_print"
    /\ print_flush(ret)
    /\ pc' = "exit"
    /\ UNCHANGED <<argv, stdin, stdin_gen, pass, lines, li, iter, ii, retval, cur,
                   craw, site, ret, ret2, exc, net, nresp, r_text, body_gen, pipe,
                   digits>>

FlagPrintBroken ==
    /\ pc = "flag_print"
    /\ pipe' = "closed"
    /\ Propagate("BrokenPipeError")
    /\ UNCHANGED <<argv, stdin, stdin_gen, pass, lines, li, iter, ii, retval, cur,
                   craw, site, ret, ret2, net, nresp, r_text, body_gen, stdout,
                   outbuf, digits>>

\* the answer of the API to the request in flight
MainResponse == mac2switchport_Response(MainBodyGens(net[Len(net)].mac))

-----------------------------------------------------------------------------
(* The runs of main *)

BareLines == {MacA, MacD, MacX}
StdinLineSet == BareLines \cup {JsonText(d) : d \in JsonDocs}
StdinGens == UNION {[1..n -> StdinLineSet] : n \in 0..MaxLines}
FlagMacs == {MacA, MacU, MacX}

Idle ==
    /\ pass = "json" /\ lines = <<>> /\ li = 0 /\ iter = <<>> /\ ii = 0
    /\ retval = <<>> /\ ret = None /\ ret2 = None /\ exc = "none" /\ net = <<>>
    /\ nresp = 0 /\ r_text = None /\ body_gen = <<>> /\ stdout = <<>>
    /\ outbuf = <<>> /\ pipe = "open"

Init ==
    /\ Idle
    /\ pc = "main" /\ cur = <<>> /\ craw = FALSE /\ site = "none" /\ digits = <<>>
    /\ \/ /\ argv \in {[t |-> "args", mac |-> m, raw |-> b] : m \in FlagMacs, b \in BOOLEAN}
          /\ stdin_gen = <<>> /\ stdin = <<>>
       \/ /\ argv = None
          /\ stdin_gen \in StdinGens
          /\ stdin = join(<<"\n">>, stdin_gen \o <<<<>>>>)

Next ==
    \/ ReadStdin
    \/ JsonLine
    \/ DictCall
    \/ ListCall
    \/ RetvalAppend
    \/ JsonPrint
    \/ JsonPrintBroken
    \/ FallbackLine
    \/ FallbackPrint
    \/ FallbackPrintBroken
    \/ FlagCall
    \/ FlagPrint
    \/ FlagPrintBroken
    \/ mac2switchport_Request
    \/ MainResponse
    \/ mac2switchport_NetworkError

Spec == Init /\ [][Next]_vars

-----------------------------------------------------------------------------
(* The runs of format_mac alone *)

FormatMacCall ==
    /\ pc = "fmt_entry"
    /\ LET f == format_mac(cur)
       IN IF f.ok
          THEN ret' = Str(f.val) /\ pc' = "fmt_returned" /\ exc' = exc
          ELSE Propagate("AssertionError") /\ ret' = ret
    /\ UNCHANGED <<argv, stdin, stdin_gen, pass, lines, li, iter, ii, retval, cur,
                   craw, site, ret2, net, nresp, r_text, body_gen, stdout, outbuf,
                   pipe, digits>>

\* format_mac applied to what format_mac returned
FormatMacAgain ==
    /\ pc = "fmt_returned"
    /\ LET f == format_mac(ret.s)
       IN IF f.ok
          THEN ret2' = Str(f.val) /\ pc' = "fmt_twice" /\ exc' = exc
          ELSE Propagate("AssertionError") /\ ret2' = ret2
    /\ UNCHANGED <<argv, stdin, stdin_gen, pass, lines, li, iter, ii, retval, cur,
                   craw, site, ret, net, nresp, r_text, body_gen, stdout, outbuf,
                   pipe, digits>>

\* the inputs: the characters d, after every second one the next delimiter of g
SeedChars == {"a", "B", "1", "g", "_"}
Seps == {<<>>, <<":">>, <<"-">>, <<".">>, <<" ">>}
Leads == {<<>>, <<" ">>}
DigitLens == {MacLen - 2, MacLen - 1, MacLen, MacLen + 1}

RECURSIVE Interleave(_, _, _)
Interleave(d, g, i) ==
    IF i > Len(d) THEN <<>>
    ELSE <<d[i]>> \o (IF i % 2 = 0 THEN g[((i \div 2) % Len(g)) + 1] ELSE <<>>)
                  \o Interleave(d, g, i + 1)

InitFmt ==
    /\ Idle
    /\ argv = None /\ stdin = <<>> /\ stdin_gen = <<>>
    /\ pc = "fmt_entry" /\ craw = FALSE /\ site = "none"
    /\ \E seed \in [1..SeedLen -> SeedChars], n \in DigitLens,
          g \in [1..GapPeriod -> Seps], lead \in Leads :
         /\ digits = [i \in 1..n |-> seed[((i - 1) % SeedLen) + 1]]
         /\ cur = lead \o Interleave(digits, g, 1)

NextFmt ==
    \/ FormatMacCall
    \/ FormatMacAgain

SpecFmt == InitFmt /\ [][NextFmt]_vars

-----------------------------------------------------------------------------
(* The runs of mac2switchport alone *)

ResolveMacs == {MacA, MacB, MacU, MacX}

ResolveResponse == mac2switchport_Response(RichBodyGens)

InitResolve ==
    /\ Idle
    /\ argv = None /\ stdin = <<>> /\ stdin_gen = <<>> /\ digits = <<>>
    /\ pc = "m2s_entry" /\ site = "returned"
    /\ cur \in ResolveMacs
    /\ craw \in BOOLEAN

NextResolve ==
    \/ mac2switchport_Request
    \/ ResolveResponse
    \/ mac2switchport_NetworkError

SpecResolve == InitResolve /\ [][NextResolve]_vars

-----------------------------------------------------------------------------
(* Properties of format_mac *)

\* the characters of the input are 12 hex digits, in either case
DigitsValid ==
    Len(digits) = MacLen /\ \A i \in DOMAIN digits : LowerChar(digits[i]) \in HexDigits

\* six lowercase pairs joined by ':'
Canonical ==
    [i \in 1..(MacLen + (MacLen \div 2) - 1) |->
        IF i % 3 = 0 THEN ":" ELSE LowerChar(digits[i - (i \div 3)])]

\* C1: an input that is 12 hex digits once '.', ':', '-' and whitespace are
\* removed is returned as six lowercase pairs joined by ':' (17 characters),
\* whatever its delimiters, case or whitespace, and format_mac of the result
\* is the result
C1_Canonical ==
    (pc # "fmt_entry" /\ DigitsValid) =>
        /\ pc \in {"fmt_returned", "fmt_twice"}
        /\ ret = Str(Canonical)
        /\ Len(ret.s) = 17
        /\ pc = "fmt_twice" => ret2 = ret

C1_Witness ==
    /\ pc = "fmt_twice" /\ DigitsValid
    /\ \E i \in DOMAIN cur : cur[i] = "B"
    /\ \E i, j \in DOMAIN cur : cur[i] = "." /\ cur[j] = " "
    /\ ret2 = ret /\ ret.s # cur

\* C2: format_mac raises for every input that, once stripped, has not exactly
\* 12 characters or has a character that is no hex digit
C2_RejectsInvalid ==
    (pc # "fmt_entry" /\ ~DigitsValid) => pc = "raised"

-----------------------------------------------------------------------------
(* Properties of mac2switchport *)

\* the response has arrived and is parsed (raw=False)
Parsed == nresp = 1 /\ r_text # None /\ ~craw

SixFieldLines == SelectSeq(body_gen, LAMBDA l : Len(l) = NumFields)

HasBadRecord ==
    \E k \in DOMAIN body_gen :
        Len(body_gen[k]) = NumFields /\ ~format_mac(body_gen[k][1]).ok

ExpectedRecord(l) ==
    Dict([mac |-> format_mac(l[1]).val, vendor |-> l[2], switch |-> l[3],
          port |-> l[4], vlan |-> l[5], ipaddress |-> l[6]])

ExpectedRecords == [k \in DOMAIN SixFieldLines |-> ExpectedRecord(SixFieldLines[k])]

\* C3: with raw=False and every 6-field line starting with a MAC, the records
\* are one per 6-field line, in the order of the lines, every other line is
\* dropped; one record is returned as itself, none or several as the list
C3_Records ==
    (Parsed /\ ~HasBadRecord) =>
        /\ pc = "returned"
        /\ ret = IF Len(ExpectedRecords) = 1 THEN ExpectedRecords[1]
                 ELSE List(ExpectedRecords)

C3_Witness ==
    /\ Parsed /\ pc = "returned"
    /\ Len(body_gen) = 3 /\ Len(SixFieldLines) = 2
    /\ ret.t = "list" /\ Len(ret.l) = 2
    /\ ret.l[1].d.switch = Sw2 /\ ret.l[1].d.mac = MacA
    /\ ret.l[2].d.switch = Sw1

\* C10: with raw=False, mac2switchport raises the error of format_mac and
\* returns nothing exactly when some 6-field line of the body starts with
\* something that is no MAC, whatever the other lines are
C10_BadRecordRaises ==
    Parsed => (HasBadRecord <=> (pc = "raised" /\ exc = "AssertionError" /\ ret = None))

C10_Witness ==
    /\ Parsed /\ pc = "raised" /\ exc = "AssertionError" /\ ret = None
    /\ body_gen[1] = RecordLine(MacA, Sw1)
    /\ body_gen[2] = <<Junk, Acme, Sw1, Gi01, Vlan10, Ip5>>

-----------------------------------------------------------------------------
(* Properties of main *)

FlagMode == argv # None
StreamMode == argv = None /\ pc \notin {"fmt_entry", "fmt_returned", "fmt_twice"}

\* the characters print delivers for a string
StdoutText(w) == w.doc.text \o <<w.end>>

\* flag mode with --raw has printed
RawPrinted == FlagMode /\ argv.raw /\ pc = "exit"

\* C4 as stated: with --raw the response body reaches standard output
\* unmodified, not as JSON
C4_RawUnmodified ==
    RawPrinted =>
        /\ Len(stdout) = 1
        /\ stdout[1].doc.json = "string"
        /\ \/ stdout[1].doc.text = r_text.s
           \/ StdoutText(stdout[1]) = r_text.s

\* C4, amended: with --raw the response body reaches standard output whole
\* (no line filtered, nothing parsed) but as one JSON string: between double
\* quotes, its line breaks, double quotes and backslashes escaped
C4_RawJsonString ==
    RawPrinted =>
        /\ Len(stdout) = 1 /\ outbuf = <<>>
        /\ stdout[1].doc.json = "string"
        /\ stdout[1].doc.text = <<"\"">> \o escape(r_text.s) \o <<"\"">>
        /\ \A i \in DOMAIN stdout[1].doc.text : stdout[1].doc.text[i] # "\n"
        /\ Len(stdout[1].doc.text) > Len(r_text.s) + 2

C4_Witness ==
    /\ RawPrinted
    /\ r_text.s = BodyText(<<ErrorLine(MacA), EmptyLine>>)
    /\ Len(stdout) = 1

\* the requests and the output of one line of one loop
ReqsOf(p, l) == SelectSeq(net, LAMBDA r : r.pass = p /\ r.line = l)
OutsOf(p, l) == SelectSeq(stdout, LAMBDA w : w.pass = p /\ w.line = l)

ValidMacs == {MacA, MacB, MacD, MacU}

\* line k of standard input is {"mac": [m1, ..., mn]} with valid m1 ... mn
ValidBatches ==
    {[text |-> JsonText(d), macs |-> [j \in DOMAIN d.d.mac.l |-> d.d.mac.l[j].s]] :
        d \in {x \in DictListDocs : \A j \in DOMAIN x.d.mac.l : x.d.mac.l[j].s \in ValidMacs}}

IsValidBatch(k) == \E b \in ValidBatches : b.text = stdin_gen[k]

BatchOf(k) == (CHOOSE b \in ValidBatches : b.text = stdin_gen[k]).macs

\* the JSON document w is the result of a lookup of m
IsResultFor(w, m) ==
    \/ w.json = "array" /\ w.elements = <<>>
    \/ w.json = "object" /\ w.members.mac = format_mac(m).val

C6_SingleMacString ==
    ( /\ StreamMode
      /\ stdin_gen = <<JsonText(Dict([mac |-> Str(MacA)]))>>
      /\ pc \in {"exit", "raised"}
      /\ exc \notin {"ConnectionError", "BrokenPipeError"} ) =>
        /\ pc = "exit"
        /\ Len(net) = 1 /\ net[1].mac = MacA
        /\ Len(stdout) = 1

\* C7: when every non-empty line of standard input is a bare valid MAC, each
\* is resolved once, in order, and one JSON value is printed per line, flushed
\* before the request of the next line
C7_BareMacLines ==
    ( /\ StreamMode
      /\ \A k \in DOMAIN stdin_gen : stdin_gen[k] \in {MacA, MacD}
      /\ pc = "exit" /\ pipe = "open" ) =>
        /\ Len(net) = Len(stdin_gen)
        /\ Len(stdout) = Len(stdin_gen)
        /\ \A k \in DOMAIN stdin_gen :
             /\ net[k].mac = format_mac(stdin_gen[k]).val
             /\ net[k].outs = k - 1
             /\ stdout[k].reqs = k

\* C8: in stream mode a broken output pipe ends main without an exception,
\* whichever loop was printing
C8_BrokenPipeCaught ==
    (StreamMode /\ pipe = "closed") => (pc = "exit" /\ exc = "none")

\* C9: in stream mode a lookup that fails (invalid MAC, network error) ends
\* main with that exception: nothing is printed for the line being handled,
\* no request follows the failing one, earlier output stays
C9_FailureAborts ==
    (StreamMode /\ exc \in {"AssertionError", "ConnectionError"}) =>
        /\ pc = "raised"
        /\ OutsOf(pass, li) = <<>>
        /\ outbuf = <<>>
        /\ \A i \in DOMAIN net :
             \/ net[i].pass = "json" /\ pass = "fallback"
             \/ net[i].pass = pass /\ net[i].line < li
             \/ net[i].pass = pass /\ net[i].line = li /\ net[i].item <= ii
        /\ \A n \in DOMAIN stdout :
             \/ stdout[n].pass = "json" /\ pass = "fallback"
             \/ stdout[n].pass = pass /\ stdout[n].line < li

C9_Witness ==
    /\ StreamMode /\ pc = "raised" /\ exc = "ConnectionError"
    /\ pass = "json" /\ li = 2 /\ ii = 2
    /\ Len(retval) = 1 /\ Len(stdout) = 1 /\ Len(net) = 3

====
